---- MODULE Spec2Model ----
(***************************************************************************)
(* State-machine model of the ethernet bootstrap tasklet                   *)
(* (mbed-mesh-api/source/ethernet_tasklet.c).                              *)
(*                                                                         *)
(* The C functions are modelled as operators over the tasklet data record  *)
(* that return the new record, the return value and the ordered list of    *)
(* calls the function makes into the event OS, the network stack and the   *)
(* application callback.  The event OS (handler registry, event queue,     *)
(* timers) is the environment; it consumes those calls.                    *)
(***************************************************************************)
EXTENDS Integers, Sequences, FiniteSets

VARIABLES
    tasklet_data_ptr,   \* <<>> is NULL, <<td>> points to the tasklet_data_str_t td
    eth_mac_api,        \* FALSE is NULL, TRUE once ethernet_mac_create has run
    handlers,           \* ids under which enet_tasklet_main is registered
    queue,              \* events the event OS holds for the handler, in order
    timers,             \* owner id -> number of pending TIMER_EVENT_START_BOOTSTRAP timers
    last,               \* the operation the last step ran, with its arguments
    calls,              \* the calls that operation made, in order
    ret,                \* its return value (0 for void functions)
    run,                \* history of the current run of Ready outcomes
    discon,             \* history: the disconnects made since the last connect
    pc,                 \* where the application thread is inside a public function
    hpc,                \* where the dispatcher thread is inside the notifier
    hist                \* history: progress along the reference scenario, kind of the last connect

vars == <<tasklet_data_ptr, eth_mac_api, handlers, queue, timers,
          last, calls, ret, run, discon, pc, hpc, hist>>

-----------------------------------------------------------------------------
(* Bounds of the model *)

(* Most events and timers the event OS holds for the handler at a time. *)
MaxPending == 2

(* Program constants *)

TIMER_EVENT_START_BOOTSTRAP == 1
INVALID_INTERFACE_ID == -1
APPL_EVENT_CONNECT == 1
RETRY_DELAY_MS == 5000
MIN_ADDRESS_LEN == 40

TASKLET_STATE_CREATED == "TASKLET_STATE_CREATED"
TASKLET_STATE_INITIALIZED == "TASKLET_STATE_INITIALIZED"
TASKLET_STATE_BOOTSTRAP_STARTED == "TASKLET_STATE_BOOTSTRAP_STARTED"
TASKLET_STATE_BOOTSTRAP_FAILED == "TASKLET_STATE_BOOTSTRAP_FAILED"
TASKLET_STATE_BOOTSTRAP_READY == "TASKLET_STATE_BOOTSTRAP_READY"

tasklet_state_t ==
    { TASKLET_STATE_CREATED, TASKLET_STATE_INITIALIZED,
      TASKLET_STATE_BOOTSTRAP_STARTED, TASKLET_STATE_BOOTSTRAP_FAILED,
      TASKLET_STATE_BOOTSTRAP_READY }

(* Values of the inputs *)

NULL_CB == 0
Callbacks == {1, 2}
WILD_CB == 9
HandlerIds == {0, 1}
HandlerCreateErrors == {-1, -2}
InterfaceIds == {3}
Capacities == {0, 39, 40, 127}          \* int8_t len
AddressQueryResults == {0, -1}          \* 0: the interface has a global address
DeviceIds == {0}
OtherEventIds == {2}
NetworkStatuses ==
    { "ARM_NWK_BOOTSTRAP_READY", "ARM_NWK_IP_ADDRESS_ALLOCATION_FAIL",
      "ARM_NWK_NWK_CONNECTION_DOWN", "ARM_NWK_NWK_SCAN_FAIL" }

-----------------------------------------------------------------------------
(* Records *)

(* A call fn(a, b, c) made by the code; s carries a symbolic argument. *)
Call(fn, a, b, s) == [fn |-> fn, a |-> a, b |-> b, c |-> 0, s |-> s]

arm_event_s(type, id, data, receiver) ==
    [event_type |-> type, event_id |-> id, event_data |-> data, receiver |-> receiver]

tasklet_data_str_t(cb, state, main_id, if_id, tasklet) ==
    [mesh_api_cb |-> cb, tasklet_state |-> state, node_main_tasklet_id |-> main_id,
     network_interface_id |-> if_id, tasklet |-> tasklet]

Result(td, cs, r) == [td |-> td, calls |-> cs, ret |-> r]

PtrResult(ptr, cs, r) == [ptr |-> ptr, calls |-> cs, ret |-> r]

(* memset(tasklet_data_ptr, 0, sizeof(tasklet_data_str_t)): every field zero; *)
(* TASKLET_STATE_CREATED is the enumerator with value 0.                      *)
ZeroedData == tasklet_data_str_t(NULL_CB, TASKLET_STATE_CREATED, 0, 0, 0)

(* What ns_dyn_mem_alloc may hand out: the block is not initialised. *)
UninitializedData ==
    { tasklet_data_str_t(cb, TASKLET_STATE_CREATED, m, 0, t) :
        cb \in {NULL_CB, WILD_CB}, m \in {0, 1}, t \in {0, 1} }

-----------------------------------------------------------------------------
(* ethernet_tasklet.c, private functions *)

enet_tasklet_network_state_changed(td, status) ==
    IF td.mesh_api_cb # NULL_CB
    THEN << Call("mesh_api_cb", td.mesh_api_cb, 0, status) >>
    ELSE << >>

enet_tasklet_configure_and_connect_to_network(td) ==
    << Call("arm_nwk_interface_up", td.network_interface_id, 0, "") >>

(* Variant: a Ready outcome notifies without looking at the state. *)
ParseStatus_NoRepeatCheck(td, status) ==
    CASE status = "ARM_NWK_BOOTSTRAP_READY" ->
           LET td1 == [td EXCEPT !.tasklet_state = TASKLET_STATE_BOOTSTRAP_READY]
           IN  Result(td1, enet_tasklet_network_state_changed(td1, "MESH_CONNECTED"), 0)
      [] status \in {"ARM_NWK_IP_ADDRESS_ALLOCATION_FAIL", "ARM_NWK_NWK_CONNECTION_DOWN"} ->
           Result([td EXCEPT !.tasklet_state = TASKLET_STATE_BOOTSTRAP_FAILED], << >>, 0)
      [] OTHER ->
           Result(td, << >>, 0)

(* The switch over the bootstrap outcome. *)
ParseStatus(td, status) ==
    CASE status = "ARM_NWK_BOOTSTRAP_READY" ->
           IF td.tasklet_state # TASKLET_STATE_BOOTSTRAP_READY
           THEN LET td1 == [td EXCEPT !.tasklet_state = TASKLET_STATE_BOOTSTRAP_READY]
                IN  Result(td1, enet_tasklet_network_state_changed(td1, "MESH_CONNECTED"), 0)
           ELSE Result(td, << >>, 0)
      [] status = "ARM_NWK_IP_ADDRESS_ALLOCATION_FAIL" ->
           Result([td EXCEPT !.tasklet_state = TASKLET_STATE_BOOTSTRAP_FAILED], << >>, 0)
      [] status = "ARM_NWK_NWK_CONNECTION_DOWN" ->
           Result([td EXCEPT !.tasklet_state = TASKLET_STATE_BOOTSTRAP_FAILED], << >>, 0)
      [] OTHER ->
           Result(td, << >>, 0)

(* The retry timer request that ends enet_tasklet_parse_network_event. *)
RetryTimer(td) ==
    IF td.tasklet_state # TASKLET_STATE_BOOTSTRAP_READY
    THEN << [Call("eventOS_event_timer_request", TIMER_EVENT_START_BOOTSTRAP,
                  td.node_main_tasklet_id, "ARM_LIB_SYSTEM_TIMER_EVENT")
               EXCEPT !.c = RETRY_DELAY_MS] >>
    ELSE << >>

(* Variant: no retry timer is requested. *)
enet_tasklet_parse_network_event_NoRetry(td, event) ==
    LET r == ParseStatus(td, event.event_data)
    IN  Result(r.td, r.calls, 0)

enet_tasklet_parse_network_event(td, event) ==
    LET r == ParseStatus(td, event.event_data)
    IN  Result(r.td, r.calls \o RetryTimer(r.td), 0)

enet_tasklet_main(td, event) ==
    CASE event.event_type = "ARM_LIB_NWK_INTERFACE_EVENT" ->
           enet_tasklet_parse_network_event(td, event)
      [] event.event_type = "ARM_LIB_TASKLET_INIT_EVENT" ->
           LET td1 == [td EXCEPT !.node_main_tasklet_id = event.receiver]
           IN  Result(td1, << Call("mesh_system_send_connect_event", td1.tasklet, 0, "") >>, 0)
      [] event.event_type = "ARM_LIB_SYSTEM_TIMER_EVENT" ->
           Result(td,
                  << Call("eventOS_event_timer_cancel", event.event_id,
                          td.node_main_tasklet_id, "") >>
                  \o (IF event.event_id = TIMER_EVENT_START_BOOTSTRAP
                      THEN enet_tasklet_configure_and_connect_to_network(td)
                      ELSE << >>),
                  0)
      [] event.event_type = "APPLICATION_EVENT" ->
           Result(td,
                  IF event.event_id = APPL_EVENT_CONNECT
                  THEN enet_tasklet_configure_and_connect_to_network(td)
                  ELSE << >>,
                  0)
      [] OTHER ->
           Result(td, << >>, 0)

-----------------------------------------------------------------------------
(* ethernet_tasklet.c, public functions.  created, down_status and attached *)
(* are the values the event OS and the network stack return to the call.    *)

(* Variant: the reconnect path does not restore the handler id. *)
enet_tasklet_connect_NoRestore(td, callback, nwk_interface_id, created) ==
    LET re_connecting == td.tasklet_state # TASKLET_STATE_CREATED
        td1 == [ZeroedData EXCEPT !.mesh_api_cb = callback,
                                  !.network_interface_id = nwk_interface_id,
                                  !.tasklet_state = TASKLET_STATE_INITIALIZED]
    IN  IF ~re_connecting
        THEN Result([td1 EXCEPT !.tasklet = created],
                    << Call("eventOS_event_handler_create", created, 0,
                            "ARM_LIB_TASKLET_INIT_EVENT") >>,
                    IF created < 0 THEN created ELSE 0)
        ELSE Result(td1, << Call("mesh_system_send_connect_event", td1.tasklet, 0, "") >>, 0)

(* Variant: a failed handler registration is not noticed. *)
enet_tasklet_connect_NoErrorCheck(td, callback, nwk_interface_id, created) ==
    LET re_connecting == td.tasklet_state # TASKLET_STATE_CREATED
        tasklet_id == td.tasklet
        td1 == [ZeroedData EXCEPT !.mesh_api_cb = callback,
                                  !.network_interface_id = nwk_interface_id,
                                  !.tasklet_state = TASKLET_STATE_INITIALIZED]
    IN  IF ~re_connecting
        THEN Result([td1 EXCEPT !.tasklet = created],
                    << Call("eventOS_event_handler_create", created, 0,
                            "ARM_LIB_TASKLET_INIT_EVENT") >>,
                    0)
        ELSE Result([td1 EXCEPT !.tasklet = tasklet_id],
                    << Call("mesh_system_send_connect_event", tasklet_id, 0, "") >>,
                    0)

(* Variant: a reconnect keeps the state it finds. *)
enet_tasklet_connect_KeepState(td, callback, nwk_interface_id, created) ==
    LET re_connecting == td.tasklet_state # TASKLET_STATE_CREATED
        tasklet_id == td.tasklet
        td1 == [ZeroedData EXCEPT !.mesh_api_cb = callback,
                                  !.network_interface_id = nwk_interface_id,
                                  !.tasklet_state = TASKLET_STATE_INITIALIZED]
    IN  IF ~re_connecting
        THEN Result([td1 EXCEPT !.tasklet = created],
                    << Call("eventOS_event_handler_create", created, 0,
                            "ARM_LIB_TASKLET_INIT_EVENT") >>,
                    IF created < 0 THEN created ELSE 0)
        ELSE Result([td1 EXCEPT !.tasklet = tasklet_id,
                                !.tasklet_state = td.tasklet_state],
                    << Call("mesh_system_send_connect_event", tasklet_id, 0, "") >>,
                    0)

enet_tasklet_connect(td, callback, nwk_interface_id, created) ==
    LET re_connecting == td.tasklet_state # TASKLET_STATE_CREATED
        tasklet_id == td.tasklet
        td1 == [ZeroedData EXCEPT !.mesh_api_cb = callback,
                                  !.network_interface_id = nwk_interface_id,
                                  !.tasklet_state = TASKLET_STATE_INITIALIZED]
    IN  IF ~re_connecting
        THEN Result([td1 EXCEPT !.tasklet = created],
                    << Call("eventOS_event_handler_create", created, 0,
                            "ARM_LIB_TASKLET_INIT_EVENT") >>,
                    IF created < 0 THEN created ELSE 0)
        ELSE Result([td1 EXCEPT !.tasklet = tasklet_id],
                    << Call("mesh_system_send_connect_event", tasklet_id, 0, "") >>,
                    0)

(* Variant: the callback is cleared before the notification is sent. *)
enet_tasklet_disconnect_ClearFirst(ptr, send_cb, down_status) ==
    IF ptr # << >>
    THEN LET td == [ptr[1] EXCEPT !.mesh_api_cb = NULL_CB] IN
         IF td.network_interface_id # INVALID_INTERFACE_ID
         THEN LET td1 == [td EXCEPT !.network_interface_id = INVALID_INTERFACE_ID]
              IN  PtrResult(<< td1 >>,
                            << Call("arm_nwk_interface_down", td.network_interface_id, 0, "") >>
                            \o (IF send_cb
                                THEN enet_tasklet_network_state_changed(td1, "MESH_DISCONNECTED")
                                ELSE << >>),
                            down_status)
         ELSE PtrResult(<< td >>, << >>, -1)
    ELSE PtrResult(ptr, << >>, -1)

(* Variant: send_cb is ignored, the notification is always sent. *)
enet_tasklet_disconnect_AlwaysNotify(ptr, send_cb, down_status) ==
    IF ptr # << >>
    THEN LET td == ptr[1] IN
         IF td.network_interface_id # INVALID_INTERFACE_ID
         THEN LET td1 == [td EXCEPT !.network_interface_id = INVALID_INTERFACE_ID]
              IN  PtrResult(<< [td1 EXCEPT !.mesh_api_cb = NULL_CB] >>,
                            << Call("arm_nwk_interface_down", td.network_interface_id, 0, "") >>
                            \o enet_tasklet_network_state_changed(td1, "MESH_DISCONNECTED"),
                            down_status)
         ELSE PtrResult(<< [td EXCEPT !.mesh_api_cb = NULL_CB] >>, << >>, -1)
    ELSE PtrResult(ptr, << >>, -1)

(* Variant: the callback is not cleared. *)
enet_tasklet_disconnect_KeepCallback(ptr, send_cb, down_status) ==
    IF ptr # << >>
    THEN LET td == ptr[1] IN
         IF td.network_interface_id # INVALID_INTERFACE_ID
         THEN LET td1 == [td EXCEPT !.network_interface_id = INVALID_INTERFACE_ID]
              IN  PtrResult(<< td1 >>,
                            << Call("arm_nwk_interface_down", td.network_interface_id, 0, "") >>
                            \o (IF send_cb
                                THEN enet_tasklet_network_state_changed(td1, "MESH_DISCONNECTED")
                                ELSE << >>),
                            down_status)
         ELSE PtrResult(<< td >>, << >>, -1)
    ELSE PtrResult(ptr, << >>, -1)

(* Variant: the interface is taken down whatever the stored id is. *)
enet_tasklet_disconnect_NoIdCheck(ptr, send_cb, down_status) ==
    IF ptr # << >>
    THEN LET td == ptr[1]
             td1 == [td EXCEPT !.network_interface_id = INVALID_INTERFACE_ID]
         IN  PtrResult(<< [td1 EXCEPT !.mesh_api_cb = NULL_CB] >>,
                       << Call("arm_nwk_interface_down", td.network_interface_id, 0, "") >>
                       \o (IF send_cb
                           THEN enet_tasklet_network_state_changed(td1, "MESH_DISCONNECTED")
                           ELSE << >>),
                       down_status)
    ELSE PtrResult(ptr, << >>, -1)

enet_tasklet_disconnect(ptr, send_cb, down_status) ==
    IF ptr # << >>
    THEN LET td == ptr[1] IN
         IF td.network_interface_id # INVALID_INTERFACE_ID
         THEN LET td1 == [td EXCEPT !.network_interface_id = INVALID_INTERFACE_ID]
              IN  PtrResult(<< [td1 EXCEPT !.mesh_api_cb = NULL_CB] >>,
                            << Call("arm_nwk_interface_down", td.network_interface_id, 0, "") >>
                            \o (IF send_cb
                                THEN enet_tasklet_network_state_changed(td1, "MESH_DISCONNECTED")
                                ELSE << >>),
                            down_status)
         ELSE PtrResult(<< [td EXCEPT !.mesh_api_cb = NULL_CB] >>, << >>, -1)
    ELSE PtrResult(ptr, << >>, -1)

(* Variant: the registration is set up again on every call. *)
enet_tasklet_init_Always(ptr, fresh) ==
    IF ptr = << >>
    THEN << [fresh EXCEPT !.tasklet_state = TASKLET_STATE_CREATED,
                          !.network_interface_id = INVALID_INTERFACE_ID] >>
    ELSE << [ptr[1] EXCEPT !.tasklet_state = TASKLET_STATE_CREATED,
                           !.network_interface_id = INVALID_INTERFACE_ID] >>

enet_tasklet_init(ptr, fresh) ==
    IF ptr = << >>
    THEN << [fresh EXCEPT !.tasklet_state = TASKLET_STATE_CREATED,
                          !.network_interface_id = INVALID_INTERFACE_ID] >>
    ELSE ptr

(* Variant: the interface is attached again on every call. *)
enet_tasklet_network_init_Always(td, mac, device_id, attached) ==
    [td |-> [td EXCEPT !.network_interface_id = attached],
     mac |-> TRUE,
     calls |-> (IF ~mac THEN << Call("ethernet_mac_create", device_id, 0, "") >>
                        ELSE << >>)
               \o << Call("arm_nwk_interface_ethernet_init", attached, 0, "eth0"),
                     Call("arm_nwk_interface_configure_ipv6_bootstrap_set", attached, 0,
                          "NET_IPV6_BOOTSTRAP_AUTONOMOUS") >>,
     ret |-> attached]

enet_tasklet_network_init(td, mac, device_id, attached) ==
    IF td.network_interface_id # -1
    THEN [td |-> td, mac |-> mac, calls |-> << >>, ret |-> td.network_interface_id]
    ELSE [td |-> [td EXCEPT !.network_interface_id = attached],
          mac |-> TRUE,
          calls |-> (IF ~mac THEN << Call("ethernet_mac_create", device_id, 0, "") >>
                             ELSE << >>)
                    \o << Call("arm_nwk_interface_ethernet_init", attached, 0, "eth0"),
                          Call("arm_nwk_interface_configure_ipv6_bootstrap_set", attached, 0,
                               "NET_IPV6_BOOTSTRAP_AUTONOMOUS") >>,
          ret |-> attached]

(* enet_tasklet_get_ip_address(address, len); id is the value read from     *)
(* tasklet_data_ptr->network_interface_id, query the status returned by      *)
(* arm_net_address_get when it is called.  The call of ip6tos is the only    *)
(* write to the caller's buffer.                                             *)
enet_tasklet_get_ip_address_NoLengthCheck(id, len, query) ==
    IF query = 0
    THEN [calls |-> << Call("arm_net_address_get", id, query, "ADDR_IPV6_GP"),
                       Call("ip6tos", 0, 0, "address") >>,
          ret |-> 0]
    ELSE [calls |-> << Call("arm_net_address_get", id, query, "ADDR_IPV6_GP") >>,
          ret |-> 0 - 1]

enet_tasklet_get_ip_address(id, len, query) ==
    IF len >= MIN_ADDRESS_LEN
    THEN IF query = 0
         THEN [calls |-> << Call("arm_net_address_get", id, query, "ADDR_IPV6_GP"),
                            Call("ip6tos", 0, 0, "address") >>,
               ret |-> 0]
         ELSE [calls |-> << Call("arm_net_address_get", id, query, "ADDR_IPV6_GP") >>,
               ret |-> 0 - 1]
    ELSE [calls |-> << >>, ret |-> 0 - 1]

-----------------------------------------------------------------------------
(* The event OS: handler registry, event queue and timer service. *)

Os(h, q, t) == [handlers |-> h, queue |-> q, timers |-> t]

(* The effect of one call on the event OS. *)
OsCall(os, c) ==
    CASE c.fn = "eventOS_event_handler_create" ->
           IF c.a >= 0
           THEN [os EXCEPT !.handlers = @ \cup {c.a},
                           !.queue = Append(@, arm_event_s(c.s, 0, "", c.a))]
           ELSE os
      [] c.fn = "mesh_system_send_connect_event" ->
           IF c.a \in os.handlers
           THEN [os EXCEPT !.queue =
                    Append(@, arm_event_s("APPLICATION_EVENT", APPL_EVENT_CONNECT, "", c.a))]
           ELSE os
      [] c.fn = "eventOS_event_timer_request" ->
           IF c.a = TIMER_EVENT_START_BOOTSTRAP /\ c.b \in DOMAIN os.timers
           THEN [os EXCEPT !.timers[c.b] = @ + 1]
           ELSE os
      [] c.fn = "eventOS_event_timer_cancel" ->
           IF c.a = TIMER_EVENT_START_BOOTSTRAP /\ c.b \in DOMAIN os.timers
           THEN [os EXCEPT !.timers[c.b] = 0]
           ELSE os
      [] OTHER -> os

RECURSIVE OsCalls(_, _)
OsCalls(os, cs) ==
    IF cs = << >> THEN os ELSE OsCalls(OsCall(os, Head(cs)), Tail(cs))

RECURSIVE SumTimers(_, _)
SumTimers(t, owners) ==
    IF owners = {} THEN 0
    ELSE LET o == CHOOSE x \in owners : TRUE
         IN  t[o] + SumTimers(t, owners \ {o})

PendingTimers(t) == SumTimers(t, DOMAIN t)

WithinBounds(os) ==
    Len(os.queue) + PendingTimers(os.timers) <= MaxPending

-----------------------------------------------------------------------------
(* History *)

Op(name, a, b, s, d) == [op |-> name, a |-> a, b |-> b, s |-> s, d |-> d]

CountCalls(cs, fn, s) ==
    Cardinality({ i \in 1..Len(cs) : cs[i].fn = fn /\ cs[i].s = s })

Min2(n) == IF n > 2 THEN 2 ELSE n

NoRun == [ready |-> 0, connected |-> 0, cb |-> FALSE]

(* run after the handler has processed event with cb registered and made cs. *)
RunAfter(r, event, cb, cs) ==
    LET conn == CountCalls(cs, "mesh_api_cb", "MESH_CONNECTED")
    IN  IF event.event_type # "ARM_LIB_NWK_INTERFACE_EVENT"
        THEN [r EXCEPT !.connected = Min2(@ + conn)]
        ELSE IF event.event_data \in { "ARM_NWK_IP_ADDRESS_ALLOCATION_FAIL",
                                       "ARM_NWK_NWK_CONNECTION_DOWN" }
        THEN NoRun
        ELSE IF event.event_data = "ARM_NWK_BOOTSTRAP_READY"
        THEN [ready |-> Min2(r.ready + 1),
              connected |-> Min2(r.connected + conn),
              cb |-> IF r.ready = 0 THEN cb # NULL_CB ELSE r.cb]
        ELSE [r EXCEPT !.connected = Min2(@ + conn)]

NoDisconnect == [any |-> FALSE, silent |-> FALSE]

(* The application thread is in no public function; the dispatcher thread *)
(* is not inside the notifier.                                            *)
Idle == [fn |-> "idle", at |-> 0, cb |-> NULL_CB, id |-> 0, re |-> FALSE, tid |-> 0,
         send |-> FALSE]
NotNotifying == [at |-> "idle", cb |-> NULL_CB, status |-> ""]

(* The reference scenario: init, connect(cb, 3), lifecycle-init event,      *)
(* start-connect event, Ready, ConnectionDown, retry timer event.  scn is    *)
(* the number of its steps made so far, as long as no other step was made;   *)
(* the timer's expiry, which queues the timer event, is part of the last.    *)
OffScenario == 0 - 1

ScnAfter(scn, l) ==
    CASE scn = 0 /\ l.op = "enet_tasklet_init" -> 1
      [] scn = 1 /\ l.op = "enet_tasklet_connect" /\ l.a \in Callbacks /\ l.b = 3 -> 2
      [] scn = 2 /\ l.op = "enet_tasklet_main" /\ l.s = "ARM_LIB_TASKLET_INIT_EVENT" -> 3
      [] scn = 3 /\ l.op = "enet_tasklet_main" /\ l.s = "APPLICATION_EVENT"
                 /\ l.a = APPL_EVENT_CONNECT -> 4
      [] scn = 4 /\ l.op = "enet_tasklet_main" /\ l.s = "ARM_LIB_NWK_INTERFACE_EVENT"
                 /\ l.d = "ARM_NWK_BOOTSTRAP_READY" -> 5
      [] scn = 5 /\ l.op = "enet_tasklet_main" /\ l.s = "ARM_LIB_NWK_INTERFACE_EVENT"
                 /\ l.d = "ARM_NWK_NWK_CONNECTION_DOWN" -> 6
      [] scn = 6 /\ l.op = "timer" -> 6
      [] scn = 6 /\ l.op = "enet_tasklet_main" /\ l.s = "ARM_LIB_SYSTEM_TIMER_EVENT"
                 /\ l.a = TIMER_EVENT_START_BOOTSTRAP -> 7
      [] OTHER -> OffScenario

NoHistory == [scn |-> 0, re |-> "no"]

(* re: "disconnected" once disconnect has been called in state              *)
(* BootstrapReady, "reconnected" once connect has been called after that,    *)
(* "no" after any other connect.                                             *)
HistAfter(h, l) ==
    [scn |-> ScnAfter(h.scn, l),
     re |-> CASE l.op = "enet_tasklet_connect" ->
                   IF h.re = "disconnected" THEN "reconnected" ELSE "no"
              [] l.op = "enet_tasklet_disconnect"
                 /\ l.s = TASKLET_STATE_BOOTSTRAP_READY -> "disconnected"
              [] OTHER -> h.re]

(* The step made is l. *)
Log(l) ==
    /\ last' = l
    /\ hist' = HistAfter(hist, l)

-----------------------------------------------------------------------------
(* Steps *)

Init ==
    /\ tasklet_data_ptr = << >>
    /\ eth_mac_api = FALSE
    /\ handlers = {}
    /\ queue = << >>
    /\ timers = [o \in HandlerIds |-> 0]
    /\ last = Op("start", 0, 0, "", "")
    /\ hist = NoHistory
    /\ calls = << >>
    /\ ret = 0
    /\ run = NoRun
    /\ discon = NoDisconnect
    /\ pc = Idle
    /\ hpc = NotNotifying

(* The application calls enet_tasklet_init(). *)
AppInit ==
    \E fresh \in (IF tasklet_data_ptr = << >> THEN UninitializedData ELSE {ZeroedData}) :
        /\ tasklet_data_ptr' = enet_tasklet_init(tasklet_data_ptr, fresh)
        /\ Log(Op("enet_tasklet_init", 0, 0, "", ""))
        /\ calls' = << >>
        /\ ret' = 0
        /\ UNCHANGED <<eth_mac_api, handlers, queue, timers, run, discon, pc, hpc>>

(* The application calls enet_tasklet_network_init(device_id). *)
AppNetworkInit ==
    \E device_id \in DeviceIds, attached \in InterfaceIds \cup {-1} :
        /\ tasklet_data_ptr # << >>
        \* arm_nwk_interface_ethernet_init returns a value only when it is called
        /\ tasklet_data_ptr[1].network_interface_id # -1 => attached = -1
        /\ \E r \in { enet_tasklet_network_init(tasklet_data_ptr[1], eth_mac_api,
                                                 device_id, attached) } :
               /\ tasklet_data_ptr' = << r.td >>
               /\ eth_mac_api' = r.mac
               /\ calls' = r.calls
               /\ ret' = r.ret
        /\ Log(Op("enet_tasklet_network_init", device_id, 0, "", ""))
        /\ UNCHANGED <<handlers, queue, timers, run, discon, pc, hpc>>

(* The application calls enet_tasklet_connect(callback, nwk_interface_id). *)
AppConnect ==
    \E callback \in Callbacks \cup {NULL_CB},
       nwk_interface_id \in InterfaceIds \cup {INVALID_INTERFACE_ID},
       created \in HandlerIds \cup HandlerCreateErrors :
        /\ tasklet_data_ptr # << >>
        \* eventOS_event_handler_create returns a value only when it is called
        /\ tasklet_data_ptr[1].tasklet_state # TASKLET_STATE_CREATED => created = 0
        /\ \E r \in { enet_tasklet_connect(tasklet_data_ptr[1], callback,
                                            nwk_interface_id, created) } :
           \E os \in { OsCalls(Os(handlers, queue, timers), r.calls) } :
               /\ WithinBounds(os)
               /\ tasklet_data_ptr' = << r.td >>
               /\ handlers' = os.handlers
               /\ queue' = os.queue
               /\ timers' = os.timers
               /\ calls' = r.calls
               /\ ret' = r.ret
        /\ Log(Op("enet_tasklet_connect", callback, nwk_interface_id,
                      tasklet_data_ptr[1].tasklet_state, ""))
        /\ run' = NoRun
        /\ discon' = NoDisconnect
        /\ UNCHANGED <<eth_mac_api, pc, hpc>>

(* The application calls enet_tasklet_get_ip_address(address, len); the      *)
(* interface has a global address or not, whatever len is.  With no data     *)
(* allocated the id read through the null pointer is any value.              *)
AppGetIpAddress ==
    \E len \in Capacities, query \in AddressQueryResults,
       id \in InterfaceIds \cup {INVALID_INTERFACE_ID, 0} :
        /\ tasklet_data_ptr # << >> => id = tasklet_data_ptr[1].network_interface_id
        /\ \E r \in { enet_tasklet_get_ip_address(id, len, query) } :
               /\ calls' = r.calls
               /\ ret' = r.ret
        /\ Log(Op("enet_tasklet_get_ip_address", len, query, "", ""))
        /\ UNCHANGED <<tasklet_data_ptr, eth_mac_api, handlers, queue, timers,
                       run, discon, pc, hpc>>

(* The application calls enet_tasklet_disconnect(send_cb). *)
AppDisconnect ==
    \E send_cb \in BOOLEAN, down_status \in {0, -1} :
        \* arm_nwk_interface_down returns a value only when it is called
        /\ (tasklet_data_ptr = << >>
             \/ tasklet_data_ptr[1].network_interface_id = INVALID_INTERFACE_ID)
           => down_status = -1
        /\ \E r \in { enet_tasklet_disconnect(tasklet_data_ptr, send_cb, down_status) } :
               /\ tasklet_data_ptr' = r.ptr
               /\ calls' = r.calls
               /\ ret' = r.ret
               /\ run' = [run EXCEPT !.connected =
                            Min2(@ + CountCalls(r.calls, "mesh_api_cb", "MESH_CONNECTED"))]
        /\ Log(Op("enet_tasklet_disconnect", IF send_cb THEN 1 ELSE 0, 0,
                  IF tasklet_data_ptr = << >> THEN ""
                  ELSE tasklet_data_ptr[1].tasklet_state, ""))
        /\ discon' =
             IF tasklet_data_ptr = << >> THEN discon
             ELSE [any |-> TRUE,
                   silent |-> discon.silent
                              \/ (~send_cb /\ tasklet_data_ptr[1].network_interface_id
                                                # INVALID_INTERFACE_ID)]
        /\ UNCHANGED <<eth_mac_api, handlers, queue, timers, pc, hpc>>

(* The event OS calls enet_tasklet_main(event); rest is what stays queued. *)
Handle(event, rest) ==
    /\ tasklet_data_ptr # << >>
    /\ \E r \in { enet_tasklet_main(tasklet_data_ptr[1], event) } :
       \E os \in { OsCalls(Os(handlers, rest, timers), r.calls) } :
           /\ WithinBounds(os)
           /\ tasklet_data_ptr' = << r.td >>
           /\ handlers' = os.handlers
           /\ queue' = os.queue
           /\ timers' = os.timers
           /\ calls' = r.calls
           /\ ret' = r.ret
           /\ run' = RunAfter(run, event, tasklet_data_ptr[1].mesh_api_cb, r.calls)
    /\ Log(Op("enet_tasklet_main", event.event_id, event.receiver,
                  event.event_type, event.event_data))
    /\ UNCHANGED <<eth_mac_api, discon, pc, hpc>>

(* The dispatcher delivers the oldest queued event. *)
Dispatch ==
    /\ queue # << >>
    /\ Head(queue).receiver \in handlers
    /\ Handle(Head(queue), Tail(queue))

(* The network stack reports a bootstrap outcome to the handler. *)
NetworkEvent ==
    \E h \in handlers, status \in NetworkStatuses :
        Handle(arm_event_s("ARM_LIB_NWK_INTERFACE_EVENT", 0, status, h), queue)

(* Some other event reaches the handler: an application event or a timer *)
(* event with another id.                                                *)
OtherEvent ==
    \E h \in handlers,
       type \in {"APPLICATION_EVENT", "ARM_LIB_SYSTEM_TIMER_EVENT"} :
        \E id \in OtherEventIds : Handle(arm_event_s(type, id, "", h), queue)

(* A pending retry timer expires: its event is queued for its owner. *)
TimerExpires ==
    \E o \in DOMAIN timers :
        /\ timers[o] > 0
        /\ timers' = [timers EXCEPT ![o] = @ - 1]
        /\ queue' = IF o \in handlers
                    THEN Append(queue, arm_event_s("ARM_LIB_SYSTEM_TIMER_EVENT",
                                                   TIMER_EVENT_START_BOOTSTRAP, "", o))
                    ELSE queue
        /\ Log(Op("timer", TIMER_EVENT_START_BOOTSTRAP, o, "", ""))
        /\ calls' = << >>
        /\ ret' = 0
        /\ UNCHANGED <<tasklet_data_ptr, eth_mac_api, handlers, run, discon, pc, hpc>>

Next ==
    \/ AppInit
    \/ AppNetworkInit
    \/ AppConnect
    \/ AppDisconnect
    \/ Dispatch
    \/ NetworkEvent
    \/ OtherEvent
    \/ TimerExpires

Spec == Init /\ [][Next]_vars

-----------------------------------------------------------------------------
(* The same program with the application thread and the dispatcher thread   *)
(* interleaved statement by statement: the public functions take no lock,   *)
(* so nothing in them keeps enet_tasklet_main from running between two of   *)
(* their statements.  pc.at is the source line the application thread       *)
(* executes next.                                                           *)

(* enet_tasklet_connect, lines 212-217: the locals are read. *)
RaceConnectBegin ==
    \E callback \in Callbacks \cup {NULL_CB},
       nwk_interface_id \in InterfaceIds \cup {INVALID_INTERFACE_ID} :
        /\ pc = Idle
        /\ tasklet_data_ptr # << >>
        /\ pc' = [fn |-> "enet_tasklet_connect", at |-> 219, cb |-> callback,
                  id |-> nwk_interface_id,
                  re |-> tasklet_data_ptr[1].tasklet_state # TASKLET_STATE_CREATED,
                  tid |-> tasklet_data_ptr[1].tasklet, send |-> FALSE]
        /\ Log(Op("application", 212, 0, "enet_tasklet_connect", ""))
        /\ calls' = << >>
        /\ ret' = 0
        /\ UNCHANGED <<tasklet_data_ptr, eth_mac_api, handlers, queue, timers,
                       run, discon, hpc>>

(* enet_tasklet_connect, lines 219-237, one statement a step. *)
RaceConnectStep ==
    /\ pc.fn = "enet_tasklet_connect"
    /\ Log(Op("application", pc.at, 0, "enet_tasklet_connect", ""))
    /\ CASE pc.at = 219 ->
              /\ tasklet_data_ptr' = << ZeroedData >>
              /\ pc' = [pc EXCEPT !.at = 220]
              /\ calls' = << >>
              /\ ret' = 0
              /\ UNCHANGED <<handlers, queue, timers, run, discon>>
         [] pc.at = 220 ->
              /\ tasklet_data_ptr' = << [tasklet_data_ptr[1] EXCEPT !.mesh_api_cb = pc.cb] >>
              /\ pc' = [pc EXCEPT !.at = 221]
              /\ calls' = << >>
              /\ ret' = 0
              /\ UNCHANGED <<handlers, queue, timers, run, discon>>
         [] pc.at = 221 ->
              /\ tasklet_data_ptr' =
                    << [tasklet_data_ptr[1] EXCEPT !.network_interface_id = pc.id] >>
              /\ pc' = [pc EXCEPT !.at = 222]
              /\ calls' = << >>
              /\ ret' = 0
              /\ UNCHANGED <<handlers, queue, timers, run, discon>>
         [] pc.at = 222 ->
              /\ tasklet_data_ptr' =
                    << [tasklet_data_ptr[1] EXCEPT !.tasklet_state = TASKLET_STATE_INITIALIZED] >>
              /\ pc' = [pc EXCEPT !.at = 224]
              /\ calls' = << >>
              /\ ret' = 0
              /\ UNCHANGED <<handlers, queue, timers, run, discon>>
         [] OTHER ->
              \E created \in HandlerIds \cup HandlerCreateErrors :
                  /\ pc.re => created = 0
                  /\ \E cs \in { IF ~pc.re
                                  THEN << Call("eventOS_event_handler_create", created, 0,
                                               "ARM_LIB_TASKLET_INIT_EVENT") >>
                                  ELSE << Call("mesh_system_send_connect_event", pc.tid, 0, "") >> } :
                     \E os \in { OsCalls(Os(handlers, queue, timers), cs) } :
                         /\ WithinBounds(os)
                         /\ tasklet_data_ptr' =
                               << [tasklet_data_ptr[1] EXCEPT
                                     !.tasklet = IF pc.re THEN pc.tid ELSE created] >>
                         /\ handlers' = os.handlers
                         /\ queue' = os.queue
                         /\ timers' = os.timers
                         /\ calls' = cs
                         /\ ret' = IF ~pc.re /\ created < 0 THEN created ELSE 0
                  /\ pc' = Idle
                  /\ run' = NoRun
                  /\ discon' = NoDisconnect
    /\ UNCHANGED <<eth_mac_api, hpc>>

(* enet_tasklet_disconnect, lines 242-243. *)
RaceDisconnectBegin ==
    \E send_cb \in BOOLEAN :
        /\ pc = Idle
        /\ tasklet_data_ptr # << >>
        /\ pc' = [Idle EXCEPT !.fn = "enet_tasklet_disconnect", !.at = 244, !.send = send_cb]
        /\ Log(Op("application", 242, 0, "enet_tasklet_disconnect", ""))
        /\ calls' = << >>
        /\ ret' = 0
        /\ UNCHANGED <<tasklet_data_ptr, eth_mac_api, handlers, queue, timers,
                       run, discon, hpc>>

(* enet_tasklet_disconnect, lines 244-253. *)
RaceDisconnectStep ==
    /\ pc.fn = "enet_tasklet_disconnect"
    /\ Log(Op("application", pc.at, 0, "enet_tasklet_disconnect", ""))
    /\ CASE pc.at = 244 ->
              IF tasklet_data_ptr[1].network_interface_id # INVALID_INTERFACE_ID
              THEN /\ calls' = << Call("arm_nwk_interface_down",
                                       tasklet_data_ptr[1].network_interface_id, 0, "") >>
                   /\ tasklet_data_ptr' = << [tasklet_data_ptr[1] EXCEPT
                                               !.network_interface_id = INVALID_INTERFACE_ID] >>
                   /\ pc' = [pc EXCEPT !.at = IF pc.send THEN 248 ELSE 251]
                   /\ UNCHANGED discon
              ELSE /\ calls' = << >>
                   /\ pc' = [pc EXCEPT !.at = 251]
                   /\ UNCHANGED <<tasklet_data_ptr, discon>>
         [] pc.at = 248 ->
              /\ calls' = enet_tasklet_network_state_changed(tasklet_data_ptr[1],
                                                             "MESH_DISCONNECTED")
              /\ pc' = [pc EXCEPT !.at = 251]
              /\ UNCHANGED <<tasklet_data_ptr, discon>>
         [] OTHER ->
              /\ tasklet_data_ptr' = << [tasklet_data_ptr[1] EXCEPT !.mesh_api_cb = NULL_CB] >>
              /\ calls' = << >>
              /\ pc' = Idle
              /\ discon' = [discon EXCEPT !.any = TRUE]
    /\ ret' = 0
    /\ UNCHANGED <<eth_mac_api, handlers, queue, timers, run, hpc>>

(* The dispatcher thread runs enet_tasklet_main(event).  When the event     *)
(* takes the handler into the notifier with a callback set (line 190), the  *)
(* step ends after that test; the call of line 191 is the next step.        *)
RaceDeliver(event, rest) ==
    /\ hpc = NotNotifying
    /\ tasklet_data_ptr # << >>
    /\ IF /\ event.event_type = "ARM_LIB_NWK_INTERFACE_EVENT"
          /\ event.event_data = "ARM_NWK_BOOTSTRAP_READY"
          /\ tasklet_data_ptr[1].tasklet_state # TASKLET_STATE_BOOTSTRAP_READY
          /\ tasklet_data_ptr[1].mesh_api_cb # NULL_CB
       THEN /\ tasklet_data_ptr' = << [tasklet_data_ptr[1] EXCEPT
                                        !.tasklet_state = TASKLET_STATE_BOOTSTRAP_READY] >>
            /\ hpc' = [at |-> "call", cb |-> tasklet_data_ptr[1].mesh_api_cb,
                       status |-> "MESH_CONNECTED"]
            /\ queue' = rest
            /\ Log(Op("enet_tasklet_main", event.event_id, event.receiver,
                          event.event_type, event.event_data))
            /\ calls' = << >>
            /\ ret' = 0
            /\ UNCHANGED <<eth_mac_api, handlers, timers, run, discon, pc>>
       ELSE Handle(event, rest)

RaceDispatch ==
    /\ queue # << >>
    /\ Head(queue).receiver \in handlers
    /\ RaceDeliver(Head(queue), Tail(queue))

RaceNetworkEvent ==
    \E h \in handlers, status \in NetworkStatuses :
        RaceDeliver(arm_event_s("ARM_LIB_NWK_INTERFACE_EVENT", 0, status, h), queue)

(* Line 191, then lines 167-173.  The pointer called is the one the test of *)
(* line 190 read or the one the field holds now: the compiler may keep the  *)
(* value in a register or load it again.                                    *)
RaceNotifyCall ==
    /\ hpc.at = "call"
    /\ \E f \in {hpc.cb, tasklet_data_ptr[1].mesh_api_cb} :
        /\ \E cs \in { << Call("mesh_api_cb", f, 0, hpc.status) >>
                        \o RetryTimer(tasklet_data_ptr[1]) } :
           \E os \in { OsCalls(Os(handlers, queue, timers), cs) } :
               /\ WithinBounds(os)
               /\ timers' = os.timers
               /\ calls' = cs
        /\ hpc' = NotNotifying
        /\ Log(Op("enet_tasklet_network_state_changed", f, 0, hpc.status, ""))
        /\ ret' = 0
        /\ UNCHANGED <<tasklet_data_ptr, eth_mac_api, handlers, queue, run, discon, pc>>

NextRace ==
    \/ AppInit
    \/ RaceConnectBegin
    \/ RaceConnectStep
    \/ RaceDisconnectBegin
    \/ RaceDisconnectStep
    \/ RaceDispatch
    \/ RaceNetworkEvent
    \/ RaceNotifyCall
    \/ TimerExpires

SpecRace == Init /\ [][NextRace]_vars

-----------------------------------------------------------------------------
(* Properties *)

NoCallback(cs) == \A i \in 1..Len(cs) : cs[i].fn # "mesh_api_cb"

IsReadyEvent(l) ==
    /\ l.op = "enet_tasklet_main"
    /\ l.s = "ARM_LIB_NWK_INTERFACE_EVENT"
    /\ l.d = "ARM_NWK_BOOTSTRAP_READY"

(* C1: in every run of Ready outcomes not interrupted by a failure outcome  *)
(* or a connect call, whose first Ready found a non-null callback           *)
(* registered, the callback has been invoked with MESH_CONNECTED exactly    *)
(* once, however many Ready outcomes the run holds.                         *)
C1_ConnectedOncePerReadyRun ==
    (run.ready >= 1 /\ run.cb) => run.connected = 1

C1_Witness ==
    /\ IsReadyEvent(last)
    /\ run.ready = 2
    /\ run.cb
    /\ run.connected = 1
    /\ calls = << >>

(* C2: at most one retry timer is pending at any time. *)
C2_AtMostOneRetryTimer ==
    PendingTimers(timers) <= 1

(* C3: a connect made when the state is not Created registers no handler,   *)
(* leaves the stored handler id as it was and sends the start-connect       *)
(* event to that id (the event OS queues it when the id is a registered     *)
(* handler).                                                                *)
C3_ReconnectReusesHandler ==
    [][ (last'.op = "enet_tasklet_connect" /\ last'.s # TASKLET_STATE_CREATED)
        => /\ tasklet_data_ptr'[1].tasklet = tasklet_data_ptr[1].tasklet
           /\ calls' = << Call("mesh_system_send_connect_event",
                               tasklet_data_ptr[1].tasklet, 0, "") >>
           /\ handlers' = handlers
           /\ tasklet_data_ptr[1].tasklet \in handlers
                => queue' = Append(queue, arm_event_s("APPLICATION_EVENT", APPL_EVENT_CONNECT,
                                                      "", tasklet_data_ptr[1].tasklet))
      ]_vars

C3_Witness ==
    /\ last.op = "enet_tasklet_connect"
    /\ last.s = TASKLET_STATE_BOOTSTRAP_READY
    /\ tasklet_data_ptr[1].tasklet = 1
    /\ handlers = {1}
    /\ queue # << >>
    /\ queue[Len(queue)].event_type = "APPLICATION_EVENT"

(* C4: disconnect(TRUE) on a registration with a valid interface id and a   *)
(* registered callback calls arm_nwk_interface_down once with the stored    *)
(* id, then the callback once with MESH_DISCONNECTED, and leaves the        *)
(* interface id invalid and the callback cleared.                           *)
C4_DisconnectNotifiesOnce ==
    [][ ( /\ last'.op = "enet_tasklet_disconnect"
          /\ last'.a = 1
          /\ tasklet_data_ptr # << >>
          /\ tasklet_data_ptr[1].network_interface_id # INVALID_INTERFACE_ID
          /\ tasklet_data_ptr[1].mesh_api_cb \in Callbacks )
        => /\ calls' = << Call("arm_nwk_interface_down",
                               tasklet_data_ptr[1].network_interface_id, 0, ""),
                          Call("mesh_api_cb", tasklet_data_ptr[1].mesh_api_cb, 0,
                               "MESH_DISCONNECTED") >>
           /\ tasklet_data_ptr'[1].network_interface_id = INVALID_INTERFACE_ID
           /\ tasklet_data_ptr'[1].mesh_api_cb = NULL_CB
      ]_vars

C4_Witness ==
    /\ last.op = "enet_tasklet_disconnect"
    /\ last.a = 1
    /\ Len(calls) = 2
    /\ calls[2].fn = "mesh_api_cb"
    /\ calls[2].a \in Callbacks
    /\ tasklet_data_ptr[1].tasklet_state = TASKLET_STATE_BOOTSTRAP_READY

(* C5: disconnect(FALSE) on a valid interface id calls                      *)
(* arm_nwk_interface_down once with the stored id and nothing else, and no  *)
(* step from then until the next connect invokes the callback.              *)
C5_SilentDisconnect ==
    /\ [][ ( /\ last'.op = "enet_tasklet_disconnect"
             /\ last'.a = 0
             /\ tasklet_data_ptr # << >>
             /\ tasklet_data_ptr[1].network_interface_id # INVALID_INTERFACE_ID )
           => calls' = << Call("arm_nwk_interface_down",
                               tasklet_data_ptr[1].network_interface_id, 0, "") >>
         ]_vars
    /\ [][ discon'.silent => NoCallback(calls') ]_vars

C5_Witness ==
    /\ discon.silent
    /\ IsReadyEvent(last)
    /\ run.ready = 1
    /\ tasklet_data_ptr[1].tasklet_state = TASKLET_STATE_BOOTSTRAP_READY
    /\ calls = << >>

(* C6: a first connect whose handler registration fails returns the         *)
(* negative code, leaves the state Initialized with that code as the stored *)
(* handler id and the owner id at its zero default, registers nothing and   *)
(* makes no other call.                                                     *)
C6_RegistrationFailure ==
    ( /\ last.op = "enet_tasklet_connect"
      /\ last.s = TASKLET_STATE_CREATED
      /\ calls[1].a < 0 )
    => /\ ret = calls[1].a
       /\ Len(calls) = 1
       /\ calls[1].fn = "eventOS_event_handler_create"
       /\ tasklet_data_ptr[1].tasklet_state = TASKLET_STATE_INITIALIZED
       /\ tasklet_data_ptr[1].tasklet = ret
       /\ tasklet_data_ptr[1].node_main_tasklet_id = 0
       /\ tasklet_data_ptr[1].tasklet \notin handlers
       /\ handlers = {}
       /\ queue = << >>

C6_Witness ==
    /\ last.op = "enet_tasklet_connect"
    /\ last.s = TASKLET_STATE_CREATED
    /\ ret = -2
    /\ tasklet_data_ptr[1].mesh_api_cb \in Callbacks

(* C7: a retry timer event handled after disconnect (before the next        *)
(* connect) never calls arm_nwk_interface_up with the invalid interface id. *)
C7_NoInterfaceUpAfterDisconnect ==
    ( /\ discon.any
      /\ last.op = "enet_tasklet_main"
      /\ last.s = "ARM_LIB_SYSTEM_TIMER_EVENT"
      /\ last.a = TIMER_EVENT_START_BOOTSTRAP )
    => \A i \in 1..Len(calls) :
          ~(calls[i].fn = "arm_nwk_interface_up" /\ calls[i].a = INVALID_INTERFACE_ID)

(* C8: the public functions and the event handler exclude each other: the   *)
(* handler never runs while the application thread is inside connect or     *)
(* disconnect, and the application thread is never inside one of them while *)
(* the notifier is between its null test and its call.                      *)
C8_FacadeExcludesHandler ==
    /\ last.op = "enet_tasklet_main" => pc = Idle
    /\ hpc # NotNotifying => pc = Idle

(* C9: once disconnect has returned, no step before the next connect        *)
(* invokes the callback, and the callback field stays cleared.              *)
C9_NoCallbackAfterDisconnect ==
    [][ discon.any => (NoCallback(calls') /\
                       (discon'.any => tasklet_data_ptr'[1].mesh_api_cb = NULL_CB)) ]_vars

C9_Witness ==
    /\ discon.any
    /\ ~discon.silent
    /\ IsReadyEvent(last)
    /\ run.ready = 1
    /\ tasklet_data_ptr[1].tasklet_state = TASKLET_STATE_BOOTSTRAP_READY
    /\ calls = << >>

(* C10: init on an existing registration changes nothing; init without one  *)
(* creates it with state Created and the invalid interface id.              *)
C10_InitIdempotent ==
    [][ last'.op = "enet_tasklet_init"
        => IF tasklet_data_ptr # << >>
           THEN UNCHANGED <<tasklet_data_ptr, eth_mac_api, handlers, queue, timers>>
           ELSE /\ tasklet_data_ptr'[1].tasklet_state = TASKLET_STATE_CREATED
                /\ tasklet_data_ptr'[1].network_interface_id = INVALID_INTERFACE_ID
                /\ UNCHANGED <<eth_mac_api, handlers, queue, timers>>
      ]_vars

C10_Witness ==
    /\ last.op = "enet_tasklet_init"
    /\ tasklet_data_ptr[1].tasklet_state = TASKLET_STATE_BOOTSTRAP_READY
    /\ tasklet_data_ptr[1].mesh_api_cb \in Callbacks

(* C11: network_init on a valid interface id returns that id, makes no call *)
(* and changes nothing; on the invalid id it attaches an interface, stores  *)
(* and returns the id the attach call gave.                                 *)
C11_NetworkInitIdempotent ==
    [][ last'.op = "enet_tasklet_network_init"
        => IF tasklet_data_ptr[1].network_interface_id # INVALID_INTERFACE_ID
           THEN /\ ret' = tasklet_data_ptr[1].network_interface_id
                /\ calls' = << >>
                /\ UNCHANGED <<tasklet_data_ptr, eth_mac_api, handlers, queue, timers>>
           ELSE /\ CountCalls(calls', "arm_nwk_interface_ethernet_init", "eth0") = 1
                /\ tasklet_data_ptr'[1].network_interface_id = ret'
                /\ tasklet_data_ptr' =
                     << [tasklet_data_ptr[1] EXCEPT !.network_interface_id = ret'] >>
      ]_vars

C11_Witness ==
    /\ last.op = "enet_tasklet_network_init"
    /\ calls = << >>
    /\ ret = 3
    /\ tasklet_data_ptr[1].network_interface_id = 3
    /\ tasklet_data_ptr[1].tasklet_state = TASKLET_STATE_BOOTSTRAP_READY

(* The address query beside the calls that set up and tear down the          *)
(* interface; it changes no state, so the other steps are as in Spec.        *)
NextQuery ==
    \/ AppInit
    \/ AppNetworkInit
    \/ AppGetIpAddress
    \/ AppDisconnect

SpecQuery == Init /\ [][NextQuery]_vars

(* C12: get_ip_address with a capacity below 40 returns the failure status   *)
(* and writes nothing, with or without a global address; with a capacity of  *)
(* at least 40 it returns 0 exactly when the address query returns 0.        *)
C12_GetIpAddressCapacity ==
    [][ last'.op = "enet_tasklet_get_ip_address"
        => /\ last'.a < 40 => /\ ret' = 0 - 1
                              /\ CountCalls(calls', "ip6tos", "address") = 0
           /\ last'.a >= 40 => (ret' = 0 <=> last'.b = 0)
           /\ last'.a >= 40 => (CountCalls(calls', "ip6tos", "address") = 1 <=> ret' = 0)
           /\ UNCHANGED <<tasklet_data_ptr, eth_mac_api, handlers, queue, timers>>
      ]_vars

C12_Witness ==
    /\ last.op = "enet_tasklet_get_ip_address"
    /\ last.a = 39
    /\ last.b = 0
    /\ ret = 0 - 1
    /\ calls = << >>
    /\ tasklet_data_ptr # << >>
    /\ tasklet_data_ptr[1].network_interface_id = 3

InitEventPending ==
    \E i \in 1..Len(queue) : queue[i].event_type = "ARM_LIB_TASKLET_INIT_EVENT"

SpecifiedEdges ==
    { <<TASKLET_STATE_CREATED, TASKLET_STATE_INITIALIZED>>,
      <<TASKLET_STATE_INITIALIZED, TASKLET_STATE_BOOTSTRAP_STARTED>>,
      <<TASKLET_STATE_BOOTSTRAP_STARTED, TASKLET_STATE_BOOTSTRAP_READY>>,
      <<TASKLET_STATE_BOOTSTRAP_STARTED, TASKLET_STATE_BOOTSTRAP_FAILED>>,
      <<TASKLET_STATE_BOOTSTRAP_FAILED, TASKLET_STATE_BOOTSTRAP_STARTED>>,
      <<TASKLET_STATE_BOOTSTRAP_READY, TASKLET_STATE_BOOTSTRAP_STARTED>> }

(* C13: every change of tasklet_state follows an edge of the graph Created   *)
(* -> Initialized -> BootstrapStarted -> {BootstrapReady, BootstrapFailed},  *)
(* the last two returning to BootstrapStarted; the reset to Initialized that *)
(* a connect call makes is let through, and so is whatever happens before    *)
(* the lifecycle-init event is delivered.                                    *)
C13_StateFollowsGraph ==
    [][ ( /\ tasklet_data_ptr # << >>
          /\ tasklet_data_ptr' # << >>
          /\ ~InitEventPending
          /\ tasklet_data_ptr'[1].tasklet_state # tasklet_data_ptr[1].tasklet_state )
        => \/ << tasklet_data_ptr[1].tasklet_state,
                 tasklet_data_ptr'[1].tasklet_state >> \in SpecifiedEdges
           \/ /\ last'.op = "enet_tasklet_connect"
              /\ tasklet_data_ptr'[1].tasklet_state = TASKLET_STATE_INITIALIZED
      ]_vars

IsTimerCall(c) ==
    c.fn \in {"eventOS_event_timer_request", "eventOS_event_timer_cancel"}

(* C14: once the lifecycle-init event of the registered handler has been     *)
(* delivered, every timer request and every timer cancel the handler makes   *)
(* is keyed with the id of that handler, also after a reconnect.             *)
C14_TimerKeyedWithOwner ==
    (handlers # {} /\ ~InitEventPending)
    => \A i \in 1..Len(calls) : IsTimerCall(calls[i]) => calls[i].b \in handlers

(* C17: between a disconnect call and the next connect call no              *)
(* Interface-status event makes the handler request a retry timer.           *)
C17_NoRetryTimerAfterDisconnect ==
    ( /\ discon.any
      /\ ~InitEventPending
      /\ last.op = "enet_tasklet_main"
      /\ last.s = "ARM_LIB_NWK_INTERFACE_EVENT" )
    => \A i \in 1..Len(calls) : calls[i].fn # "eventOS_event_timer_request"

(* C19: when connect returns 0 the stored handler id is non-negative and is  *)
(* the id of a registered handler, and no start-connect event has been sent  *)
(* to a negative id.                                                         *)
C19_ConnectSuccessMeansRegistered ==
    (last.op = "enet_tasklet_connect" /\ ret = 0)
    => /\ tasklet_data_ptr[1].tasklet >= 0
       /\ tasklet_data_ptr[1].tasklet \in handlers
       /\ \A i \in 1..Len(calls) :
             calls[i].fn = "mesh_system_send_connect_event" => calls[i].a >= 0

(* C18: no step calls arm_nwk_interface_down with the invalid id; a          *)
(* disconnect made with no registration or with the invalid id stored makes  *)
(* no call at all and returns -1.                                            *)
C18_NoInterfaceDownOnSentinel ==
    [][ /\ \A i \in 1..Len(calls') :
              ~(calls'[i].fn = "arm_nwk_interface_down"
                /\ calls'[i].a = INVALID_INTERFACE_ID)
        /\ ( /\ last'.op = "enet_tasklet_disconnect"
             /\ \/ tasklet_data_ptr = << >>
                \/ tasklet_data_ptr[1].network_interface_id = INVALID_INTERFACE_ID )
           => /\ calls' = << >>
              /\ ret' = 0 - 1
      ]_vars

C18_Witness ==
    /\ last.op = "enet_tasklet_disconnect"
    /\ last.a = 1
    /\ calls = << >>
    /\ ret = 0 - 1
    /\ discon.any
    /\ tasklet_data_ptr # << >>
    /\ tasklet_data_ptr[1].tasklet_state = TASKLET_STATE_BOOTSTRAP_FAILED
    /\ tasklet_data_ptr[1].network_interface_id = INVALID_INTERFACE_ID

(* C15: along init, connect(cb, 3), lifecycle-init event, start-connect      *)
(* event, Ready, ConnectionDown, retry timer event: no step before Ready     *)
(* invokes the callback and the start-connect event changes no state; Ready  *)
(* sets BootstrapReady and invokes cb once with MESH_CONNECTED;              *)
(* ConnectionDown sets BootstrapFailed, requests one timer of 5000 ms, the   *)
(* only one pending, and invokes nothing; the timer event calls              *)
(* arm_nwk_interface_up(3) once, invokes nothing and changes no field.       *)
C15_ReferenceScenario ==
    [][ /\ hist'.scn \in 1..4 => NoCallback(calls')
        /\ hist'.scn = 4
           => /\ calls' = << Call("arm_nwk_interface_up", 3, 0, "") >>
              /\ tasklet_data_ptr' = tasklet_data_ptr
              /\ tasklet_data_ptr[1].tasklet_state = TASKLET_STATE_INITIALIZED
        /\ hist'.scn = 5
           => /\ tasklet_data_ptr'[1].tasklet_state = TASKLET_STATE_BOOTSTRAP_READY
              /\ tasklet_data_ptr[1].mesh_api_cb \in Callbacks
              /\ calls' = << Call("mesh_api_cb", tasklet_data_ptr[1].mesh_api_cb, 0,
                                  "MESH_CONNECTED") >>
        /\ (hist'.scn = 6 /\ last'.op = "enet_tasklet_main")
           => /\ tasklet_data_ptr'[1].tasklet_state = TASKLET_STATE_BOOTSTRAP_FAILED
              /\ calls' = << [fn |-> "eventOS_event_timer_request", a |-> 1,
                              b |-> last'.b, c |-> 5000,
                              s |-> "ARM_LIB_SYSTEM_TIMER_EVENT"] >>
              /\ PendingTimers(timers') = 1
              /\ timers'[last'.b] = 1
        /\ (hist'.scn = 6 /\ last'.op = "timer")
           => /\ calls' = << >>
              /\ tasklet_data_ptr' = tasklet_data_ptr
        /\ hist'.scn = 7
           => /\ CountCalls(calls', "arm_nwk_interface_up", "") = 1
              /\ \A i \in 1..Len(calls') :
                    calls'[i].fn = "arm_nwk_interface_up" => calls'[i].a = 3
              /\ NoCallback(calls')
              /\ tasklet_data_ptr' = tasklet_data_ptr
              /\ tasklet_data_ptr[1].tasklet_state = TASKLET_STATE_BOOTSTRAP_FAILED
              /\ tasklet_data_ptr[1].network_interface_id = 3
      ]_vars

C15_Witness ==
    /\ hist.scn = 7
    /\ last.op = "enet_tasklet_main"
    /\ last.s = "ARM_LIB_SYSTEM_TIMER_EVENT"
    /\ Len(calls) = 2
    /\ calls[2] = Call("arm_nwk_interface_up", 3, 0, "")
    /\ tasklet_data_ptr[1].tasklet_state = TASKLET_STATE_BOOTSTRAP_FAILED
    /\ tasklet_data_ptr[1].mesh_api_cb \in Callbacks
    /\ PendingTimers(timers) = 0

(* C20: a connect made after a disconnect of a registration in state         *)
(* BootstrapReady sets the state to Initialized, a disconnect leaves the     *)
(* state as it is, and the first Ready outcome after such a connect, with no *)
(* disconnect in between, sets BootstrapReady and invokes the callback of    *)
(* that connect once with MESH_CONNECTED.                                    *)
C20_ReconnectNotifiesAgain ==
    [][ /\ (last'.op = "enet_tasklet_connect" /\ hist'.re = "reconnected")
           => /\ tasklet_data_ptr'[1].tasklet_state = TASKLET_STATE_INITIALIZED
              /\ tasklet_data_ptr'[1].mesh_api_cb = last'.a
        /\ (last'.op = "enet_tasklet_disconnect" /\ tasklet_data_ptr # << >>)
           => tasklet_data_ptr'[1].tasklet_state = tasklet_data_ptr[1].tasklet_state
        /\ ( /\ IsReadyEvent(last')
             /\ hist.re = "reconnected"
             /\ ~discon.any
             /\ run.ready = 0
             /\ tasklet_data_ptr[1].mesh_api_cb \in Callbacks )
           => /\ tasklet_data_ptr[1].tasklet_state # TASKLET_STATE_BOOTSTRAP_READY
              /\ tasklet_data_ptr'[1].tasklet_state = TASKLET_STATE_BOOTSTRAP_READY
              /\ calls' = << Call("mesh_api_cb", tasklet_data_ptr[1].mesh_api_cb, 0,
                                  "MESH_CONNECTED") >>
      ]_vars

C20_Witness ==
    /\ IsReadyEvent(last)
    /\ hist.re = "reconnected"
    /\ ~discon.any
    /\ run.ready = 1
    /\ calls = << Call("mesh_api_cb", 2, 0, "MESH_CONNECTED") >>
    /\ tasklet_data_ptr[1].mesh_api_cb = 2
    /\ tasklet_data_ptr[1].tasklet_state = TASKLET_STATE_BOOTSTRAP_READY

(* The timer service delivers every armed timer and the dispatcher every     *)
(* queued event.                                                             *)
SpecFair == Spec /\ WF_vars(TimerExpires) /\ WF_vars(Dispatch)

FailureHandled ==
    /\ last.op = "enet_tasklet_main"
    /\ last.s = "ARM_LIB_NWK_INTERFACE_EVENT"
    /\ last.d \in {"ARM_NWK_IP_ADDRESS_ALLOCATION_FAIL", "ARM_NWK_NWK_CONNECTION_DOWN"}
    /\ ~discon.any
    /\ ~InitEventPending

RetriedOrDisconnected ==
    \/ discon.any
    \/ /\ last.op = "enet_tasklet_main"
       /\ \E i \in 1..Len(calls) :
             /\ calls[i].fn = "arm_nwk_interface_up"
             /\ calls[i].a = tasklet_data_ptr[1].network_interface_id

====
